---- MODULE Spec2Model ----
(***************************************************************************)
(* Flint: the shader-reflection-driven resource-binding layer.             *)
(*   src/src/shader/descriptor.rs  DescField, Descriptor, PushConstant,    *)
(*                                 DescPoolBuilder, SetToken, DescPoolToken*)
(*   src/src/buffer/buf_struct.rs  BufStruct (field table, mapped writes)  *)
(*   src/src/buffer.rs             BufToken                                *)
(*   src/src/shader.rs             ShaderStage, MetaShader::build_chain    *)
(*                                                                         *)
(* Byte offsets and sizes are naturals.  DescField::new works in u64 on a  *)
(* declared offset that comes from a u32 decoration: for min_offset >= 1   *)
(* the rounded offset is below offset + min_offset and, when min_offset    *)
(* exceeds offset, equal to min_offset, so the u64 addition never wraps    *)
(* and unbounded naturals compute what the code computes.                  *)
(***************************************************************************)
EXTENDS Integers, Sequences, FiniteSets, TLC

(***************************************************************************)
(* Bounds of the model.                                                    *)
(***************************************************************************)
\* members of a reflected block in the layout specification
MaxFields == 3
\* declared member offsets 0..MaxDeclOffset (and the scenario offset 16)
MaxDeclOffset == 3
\* minimum-offset alignments 1..MaxAlign (and the scenario alignment 256)
MaxAlign == 4
\* shader binaries handed to build_chain
MaxStages == 2
\* byte length of a write payload
MaxData == 3

\* push-constant commands recorded into one command buffer
MaxPush == 1

\* entries of the slice given to update_desc_sets
MaxInfo == 2

\* Swapchain images one surface gives (get_swapchain_images), at most.
MaxImages == 2

\* Calls of SwapToken::recreate on one SwapToken, at most.
MaxRecreate == 2

(***************************************************************************)
(* Helpers over sequences and maps.                                        *)
(***************************************************************************)
Range(f) == {f[x] : x \in DOMAIN f}

\* every order in which a HashMap may iterate over the keys S
Perms(S) == {p \in [1..Cardinality(S) -> S] : Range(p) = S}

Max(S) == CHOOSE x \in S : \A y \in S : y <= x

Empty == <<>>

(***************************************************************************)
(* Field Layout Engine: DescField::new, DescField::from_desc_res.          *)
(***************************************************************************)
\* spirv::Type variants matched by cross_to_ash; every other variant of the
\* enum reaches `_ => unimplemented!()`
ScalarKinds ==
    {"Boolean", "Char", "Int", "UInt", "Int64", "UInt64", "AtomicCounter",
     "Half", "Float", "Double", "SByte", "UByte", "Short", "UShort"}

SupportedKinds ==
    {"Image", "SampledImage", "Sampler", "Struct", "Unknown", "Void"} \cup ScalarKinds

Unimplemented(c) == c.kind \notin SupportedKinds

\* cross_to_ash: (DescriptorType, count); count is the number of array
\* dimensions of the type, at least 1
cross_to_ash(c) ==
    LET ty == CASE c.kind = "Image" -> "SAMPLED_IMAGE"
                [] c.kind = "SampledImage" -> "COMBINED_IMAGE_SAMPLER"
                [] c.kind = "Sampler" -> "SAMPLER"
                [] OTHER -> "UNIFORM_BUFFER"
        n == IF c.kind \in {"Unknown", "Void"} THEN 1 ELSE Len(c.array)
    IN  [ty |-> ty, count |-> IF n > 1 THEN n ELSE 1]

\* AlignedOffset with the rounding going down to the previous multiple
AlignedOffset_RoundDown(offset, min_offset) ==
    offset - (offset % min_offset)

\* AlignedOffset without the `if modulo != 0`: pads an aligned offset too
AlignedOffset_AlwaysPad(offset, min_offset) ==
    offset + (min_offset - (offset % min_offset))

\* "Offset must be multiple of min_offset"; min_offset >= 1 (the remainder
\* by 0 panics)
AlignedOffset(offset, min_offset) ==
    LET modulo == offset % min_offset
    IN  IF modulo # 0 THEN offset + (min_offset - modulo) ELSE offset

\* DescField::new for member `index` (0-based) of the block type of res
DescField_new(member, index, min_offset) ==
    LET c == cross_to_ash(member.type)
    IN  [index |-> index,
         offset |-> AlignedOffset(member.offset, min_offset),
         size |-> member.size,
         ty |-> c.ty,
         count |-> c.count]

\* HashMap::insert in member order: a later member of the same name replaces
\* an earlier one
DescField_from_desc_res(block_type, min_offset) ==
    IF block_type.kind = "Struct"
    THEN LET ms == block_type.members
             names == {ms[i].name : i \in DOMAIN ms}
             last(n) == Max({i \in DOMAIN ms : ms[i].name = n})
         IN  [n \in names |-> DescField_new(ms[last(n)], last(n) - 1, min_offset)]
    ELSE Empty

\* DescField::new panics (unimplemented!) on a member of an unsupported type
FieldsPanic(block_type) ==
    /\ block_type.kind = "Struct"
    /\ \E i \in DOMAIN block_type.members : Unimplemented(block_type.members[i].type)

(***************************************************************************)
(* Descriptor, PushConstant.                                               *)
(***************************************************************************)
\* ShaderStage from the entry point's execution model, then its flag;
\* "panic" stands for `_ => panic!("Not Implemented ...")`
ShaderStage_from(execution_model) ==
    CASE execution_model = "Vertex" -> "Vert"
      [] execution_model = "Geometry" -> "Geom"
      [] execution_model = "Fragment" -> "Frag"
      [] OTHER -> "panic"

ShaderStageFlags_from(native) ==
    CASE native = "Vert" -> {"VERTEX"}
      [] native = "Geom" -> {"GEOMETRY"}
      [] native = "Frag" -> {"FRAGMENT"}

\* Descriptor::new
Descriptor_new(stage, res, min_offset) ==
    LET c == cross_to_ash(res.type)
    IN  [set |-> res.set,
         binding |-> res.binding,
         name |-> res.name,
         ty |-> c.ty,
         count |-> c.count,
         stage |-> stage,
         fields |-> DescField_from_desc_res(res.type, min_offset)]

\* Descriptor::new panics in cross_to_ash on the resource type or on a member
Descriptor_new_panics(res) ==
    Unimplemented(res.type) \/ FieldsPanic(res.type)

RECURSIVE SumSizes(_, _)
\* SumSizes as the extent of the fields: the largest offset + size
SumSizes_Extent(fields, names) ==
    IF names = {} THEN 0 ELSE Max({fields[n].offset + fields[n].size : n \in names})

SumSizes(fields, names) ==
    IF names = {} THEN 0
    ELSE LET n == CHOOSE x \in names : TRUE
         IN  fields[n].size + SumSizes(fields, names \ {n})

\* PushConstant::new: range.offset is the literal 0, range.size the fold of
\* the field sizes
PushConstant_new(stage, res, min_offset) ==
    LET fields == DescField_from_desc_res(res.type, min_offset)
    IN  [range |-> [stage_flags |-> stage,
                    size |-> SumSizes(fields, DOMAIN fields),
                    offset |-> 0],
         fields |-> fields]

PushConstant_new_panics(res) == FieldsPanic(res.type)

\* Descriptor::size
Descriptor_size(d) == [ty |-> d.ty, descriptor_count |-> d.count]

\* Into<DescriptorSetLayoutBinding> for Descriptor
LayoutBinding(d) ==
    [binding |-> d.binding,
     descriptor_type |-> d.ty,
     descriptor_count |-> d.count,
     stage_flags |-> d.stage]

(***************************************************************************)
(* Buffer Layout Allocator: BufStruct::from_fields, Descriptor::make_buffer*)
(***************************************************************************)
\* the loop of from_fields over field_iter: far_offset, far_size track the
\* field of the largest offset; the result is the size given to with_size
RECURSIVE FarFold(_, _, _)
FarFold(items, far_offset, far_size) ==
    IF items = <<>> THEN far_offset + far_size
    ELSE LET h == Head(items)
         IN  IF h.offset >= far_offset
             THEN FarFold(Tail(items), h.offset, h.size)
             ELSE FarFold(Tail(items), far_offset, far_size)

\* BufStruct::from_fields on the items (id, offset, size) in iteration order
BufStruct_from_fields(items) ==
    LET ids == {items[i].id : i \in DOMAIN items}
        last(n) == Max({i \in DOMAIN items : items[i].id = n})
    IN  [size |-> FarFold(items, 0, 0),
         fields |-> [n \in ids |-> [offset |-> items[last(n)].offset,
                                    size |-> items[last(n)].size]]]

\* Descriptor::make_buffer for a descriptor with fields, `order` being the
\* order in which self.fields.iter() yields the field names
Descriptor_make_buffer(d, order) ==
    BufStruct_from_fields(
        [i \in DOMAIN order |-> [id |-> order[i],
                                 offset |-> d.fields[order[i]].offset,
                                 size |-> d.fields[order[i]].size]])

(***************************************************************************)
(* State.                                                                  *)
(***************************************************************************)
VARIABLES
    meta,         \* build_chain: the shader binaries not yet given to add
    added,        \* the binaries add has returned from, in call order
    min_offset,   \* DescPoolBuilder.min_offset
    data,         \* DescPoolBuilder.data: set index -> Vec<Descriptor>
    push_consts,  \* DescPoolBuilder.push_consts: name -> PushConstant
    bpc,          \* "adding", "built", or "panicked" (an unwrap/panic fired)
    built,        \* what build returned: DescPoolToken and push-constant map
    buffers,      \* what make_buffers returned: name -> BufStruct
    bs,           \* the BufStruct field writes go to: requested size, fields
    mem,          \* the bytes of bs.buf.mem
    mapped,       \* the active host mapping of bs.buf.mem, or None
    wpc,          \* position of the field write in progress
    wcall,        \* the call in progress: op, field, data, callback
    werr,         \* why the call panicked, "none" if it did not
    wlog,         \* device calls the call in progress has made
    mem0,         \* the bytes of bs.buf.mem when the call was entered
    cmd_buf,      \* the push-constant commands recorded into the command buffer
    ppc,          \* position of the PushConstant::write in progress
    pcall,        \* the PushConstant::write call: block, field, data
    desc_writes,  \* what update_desc_sets gave the device: request and records
    rebuilt,      \* what a second build of the same inputs returned
    rpc,          \* two writers of one buffer: the position of each
    rcall,        \* two writers of one buffer: the field each one writes
    rholders,     \* the writers whose mapping of the memory is active
    rserial,      \* no writer has entered a write during another's write
    rdouble,      \* map_memory was requested while a mapping was active
    pipe,         \* what PipeToken::build returned: shader_info and the pool
    dropping,     \* position of the drop of the PipeToken or DescPoolToken
    destroyed,    \* the destroy calls the drop has made, in order
    sw,           \* the fields of the SwapToken that hold handles
    handles,      \* every handle created for it -> destroy calls made on it
    spc           \* position of recreate or of the drop of the SwapToken

bvars == <<meta, added, min_offset, data, push_consts, bpc, built, buffers>>

wvars == <<bs, mem, mapped, wpc, wcall, werr, wlog, mem0>>

pvars == <<cmd_buf, ppc, pcall>>

uvars == <<desc_writes, rebuilt>>

rvars == <<rpc, rcall, rholders, rserial, rdouble>>

tvars == <<pipe, dropping, destroyed>>

svars == <<sw, handles, spc>>

zvars == <<tvars, svars>>

xvars == <<pvars, uvars, rvars, zvars>>

vars == <<bvars, wvars, xvars>>

None == [none |-> TRUE]

(***************************************************************************)
(* Shader binaries, as spirv_cross reflects them.                          *)
(***************************************************************************)
FloatT == [kind |-> "Float", array |-> <<>>, members |-> <<>>]

\* a spirv::Type variant outside the arms of cross_to_ash
OtherT == [kind |-> "Other", array |-> <<>>, members |-> <<>>]

StructT(members) == [kind |-> "Struct", array |-> <<>>, members |-> members]

ImageLikeT(kind) == [kind |-> kind, array |-> <<>>, members |-> <<>>]

Member(name, offset, size) ==
    [name |-> name, offset |-> offset, size |-> size, type |-> FloatT]

Resource(name, set, binding, type) ==
    [name |-> name, set |-> set, binding |-> binding, type |-> type]

Binary(model, ubos, sampled, samplers, push) ==
    [execution_model |-> model,
     uniform_buffers |-> ubos,
     sampled_images |-> sampled,
     separate_images |-> <<>>,
     separate_samplers |-> samplers,
     storage_buffers |-> <<>>,
     storage_images |-> <<>>,
     push_constant_buffers |-> push]

\* the chain of resource lists add iterates over
ChainResources(bin) ==
    bin.uniform_buffers \o bin.sampled_images \o bin.separate_images
        \o bin.separate_samplers \o bin.storage_buffers \o bin.storage_images

Camera ==
    Resource("Camera", 0, 0, StructT(<<Member("mvp", 0, 64)>>))

\* "Camera" at the same slot with another field layout
CameraAlt ==
    Resource("Camera", 0, 0,
             StructT(<<Member("mvp", 0, 64), Member("eye", 64, 12)>>))

\* another block at the slot of Camera
Light ==
    Resource("Light", 0, 0, StructT(<<Member("dir", 0, 12)>>))

Globals ==
    Resource("Globals", 0, 1,
             StructT(<<Member("color", 0, 16), Member("intensity", 16, 4)>>))

\* a block another stage declares under the name "Globals" in set 1
GlobalsSet1 ==
    Resource("Globals", 1, 1, StructT(<<Member("fog", 0, 4)>>))

Tex == Resource("tex", 1, 0, ImageLikeT("SampledImage"))

Samp == Resource("samp", 1, 0, ImageLikeT("Sampler"))

Bad == Resource("bad", 0, 2, OtherT)

Push ==
    Resource("Push", 0, 0,
             StructT(<<Member("mvp", 0, 64), Member("tint", 64, 16)>>))

PushAlt ==
    Resource("Push", 0, 0, StructT(<<Member("tint", 0, 16)>>))

Binaries ==
    {Binary("Vertex", <<Camera>>, <<>>, <<>>, <<Push>>),
     Binary("Fragment", <<Camera>>, <<Tex>>, <<>>, <<>>),
     Binary("Fragment", <<CameraAlt>>, <<>>, <<>>, <<PushAlt>>),
     Binary("Geometry", <<Globals, Light>>, <<>>, <<>>, <<>>),
     Binary("Fragment", <<Globals>>, <<>>, <<Samp>>, <<>>),
     Binary("Fragment", <<GlobalsSet1>>, <<>>, <<>>, <<>>),
     Binary("GLCompute", <<Camera>>, <<>>, <<>>, <<>>),
     Binary("Vertex", <<Globals, Bad>>, <<>>, <<>>, <<Push>>)}

\* device limits minUniformBufferOffsetAlignment seen by the builder runs
BuilderAligns == {1, 16, 256}

SeqsUpTo(S, n) == UNION {[1..k -> S] : k \in 0..n}

(***************************************************************************)
(* DescPoolBuilder::add.                                                   *)
(***************************************************************************)
\* self.data.entry(desc.set).or_insert_with(Vec::new).push(desc)
\* PushDesc that merges a descriptor into the entry of its set that has the
\* same binding index, unioning the stage flags
PushDesc_MergeSlot(d, desc) ==
    IF desc.set \notin DOMAIN d THEN d @@ (desc.set :> <<desc>>)
    ELSE IF \E k \in DOMAIN d[desc.set] : d[desc.set][k].binding = desc.binding
    THEN [d EXCEPT ![desc.set] =
            [k \in DOMAIN @ |->
                IF @[k].binding = desc.binding
                THEN [@[k] EXCEPT !.stage = @ \cup desc.stage]
                ELSE @[k]]]
    ELSE [d EXCEPT ![desc.set] = Append(@, desc)]

PushDesc(d, desc) ==
    IF desc.set \in DOMAIN d
    THEN [d EXCEPT ![desc.set] = Append(@, desc)]
    ELSE d @@ (desc.set :> <<desc>>)

\* the first loop of add; a panic of Descriptor::new leaves the descriptors
\* pushed before it in self.data
RECURSIVE AddResources(_, _, _, _)
AddResources(d, rs, stage, mo) ==
    IF rs = <<>> THEN [data |-> d, panicked |-> FALSE]
    ELSE IF Descriptor_new_panics(Head(rs)) THEN [data |-> d, panicked |-> TRUE]
    ELSE AddResources(PushDesc(d, Descriptor_new(stage, Head(rs), mo)),
                      Tail(rs), stage, mo)

\* InsertPush that keeps the block already held under the name
InsertPush_KeepFirst(pc, name, p) ==
    [n \in DOMAIN pc \cup {name} |-> IF n \in DOMAIN pc THEN pc[n] ELSE p]

\* self.push_consts.insert(push.name, p): replaces the block of that name
InsertPush(pc, name, p) ==
    [n \in DOMAIN pc \cup {name} |-> IF n = name THEN p ELSE pc[n]]

\* the second loop of add
RECURSIVE AddPushConsts(_, _, _, _)
AddPushConsts(pc, ps, stage, mo) ==
    IF ps = <<>> THEN [push_consts |-> pc, panicked |-> FALSE]
    ELSE IF PushConstant_new_panics(Head(ps))
         THEN [push_consts |-> pc, panicked |-> TRUE]
    ELSE AddPushConsts(
             InsertPush(pc, Head(ps).name, PushConstant_new(stage, Head(ps), mo)),
             Tail(ps), stage, mo)

\* build_chain: builder.add(&m.bin) for the next m of meta
Add ==
    /\ bpc = "adding"
    /\ meta # <<>>
    /\ LET bin == Head(meta)
           native == ShaderStage_from(bin.execution_model)
       IN  IF native = "panic"
           THEN /\ bpc' = "panicked"
                /\ UNCHANGED <<meta, added, data, push_consts>>
           ELSE LET stage == ShaderStageFlags_from(native)
                    r1 == AddResources(data, ChainResources(bin), stage, min_offset)
                    r2 == IF r1.panicked
                          THEN [push_consts |-> push_consts, panicked |-> TRUE]
                          ELSE AddPushConsts(push_consts, bin.push_constant_buffers,
                                             stage, min_offset)
                IN  /\ data' = r1.data
                    /\ push_consts' = r2.push_consts
                    /\ IF r2.panicked
                       THEN bpc' = "panicked" /\ UNCHANGED <<meta, added>>
                       ELSE /\ bpc' = "adding"
                            /\ meta' = Tail(meta)
                            /\ added' = Append(added, bin)
    /\ UNCHANGED <<min_offset, built, buffers, wvars, xvars>>

(***************************************************************************)
(* DescPoolBuilder::build.                                                 *)
(***************************************************************************)
RECURSIVE Flatten(_)
Flatten(ss) == IF ss = <<>> THEN <<>> ELSE Head(ss) \o Flatten(Tail(ss))

\* HashMap::from_iter(descs.into_iter().map(|desc| (desc.name, desc))): the
\* last descriptor of a name stays
DescriptorsByName(descs) ==
    LET names == {descs[i].name : i \in DOMAIN descs}
        last(n) == Max({i \in DOMAIN descs : descs[i].name = n})
    IN  [n \in names |-> descs[last(n)]]

\* PoolInfo with max_sets counting the bindings, not the sets
PoolInfo_MaxSetsPerBinding(d, order) ==
    LET flat == Flatten([i \in DOMAIN order |-> d[order[i]]])
    IN  [pool_sizes |-> [k \in DOMAIN flat |-> Descriptor_size(flat[k])],
         max_sets |-> Len(flat)]

\* the pool create-info: sizes flattened over self.data in iteration order
PoolInfo(d, order) ==
    LET flat == Flatten([i \in DOMAIN order |-> d[order[i]]])
    IN  [pool_sizes |-> [k \in DOMAIN flat |-> Descriptor_size(flat[k])],
         max_sets |-> Cardinality(DOMAIN d)]

\* MakeSetToken with the name map taken from the other end of the iteration
MakeSetToken_CrossedDescriptors(d, order, i) ==
    [set |-> [id |-> i, layout |-> i],
     layout |-> [id |-> i,
                 bindings |-> [k \in DOMAIN d[order[i]] |->
                                  LayoutBinding(d[order[i]][k])]],
     descriptors |-> DescriptorsByName(d[order[Len(order) + 1 - i]])]

\* the SetToken of the i-th set in iteration order: the layout handle stands
\* for the binding list it was created from, the set handle for its layout
MakeSetToken(d, order, i) ==
    [set |-> [id |-> i, layout |-> i],
     layout |-> [id |-> i,
                 bindings |-> [k \in DOMAIN d[order[i]] |->
                                  LayoutBinding(d[order[i]][k])]],
     descriptors |-> DescriptorsByName(d[order[i]])]

\* Build that hands back the pool when a later device call fails
Build_PartialOnFailure ==
    /\ bpc = "adding"
    /\ meta = <<>>
    /\ \E order \in Perms(DOMAIN data), fail \in 0..3 :
          /\ fail = 2 => DOMAIN data # {}
          /\ IF fail = 0
             THEN /\ bpc' = "built"
                  /\ built' = [pool |-> PoolInfo(data, order),
                               sets |-> [i \in DOMAIN order |->
                                            MakeSetToken(data, order, i)],
                               push_consts |-> push_consts]
             ELSE /\ bpc' = "panicked"
                  /\ built' = IF fail = 1 THEN None
                              ELSE [pool |-> PoolInfo(data, order),
                                    sets |-> <<>>,
                                    push_consts |-> push_consts]
    /\ data' = Empty
    /\ push_consts' = Empty
    /\ UNCHANGED <<meta, added, min_offset, buffers, wvars, xvars>>

\* build_chain: builder.build(dev) once every binary was added.  `order` is
\* the iteration order of self.data (the same for iter and into_iter of one
\* map); `fail` says which device call returns an error and is unwrapped:
\* 0 none, 1 create_descriptor_pool, 2 a create_descriptor_set_layout,
\* 3 allocate_descriptor_sets
Build ==
    /\ bpc = "adding"
    /\ meta = <<>>
    /\ \E order \in Perms(DOMAIN data), fail \in 0..3 :
          /\ fail = 2 => DOMAIN data # {}
          /\ IF fail = 0
             THEN /\ bpc' = "built"
                  /\ built' = [pool |-> PoolInfo(data, order),
                               sets |-> [i \in DOMAIN order |->
                                            MakeSetToken(data, order, i)],
                               push_consts |-> push_consts]
             ELSE /\ bpc' = "panicked"
                  /\ built' = None
    /\ data' = Empty
    /\ push_consts' = Empty
    /\ UNCHANGED <<meta, added, min_offset, buffers, wvars, xvars>>

(***************************************************************************)
(* DescPoolToken::make_buffers.                                            *)
(***************************************************************************)
\* the descriptors with fields, over all sets, by name
StructNames(sets) ==
    {n \in UNION {DOMAIN sets[i].descriptors : i \in DOMAIN sets} :
        \E i \in DOMAIN sets :
            /\ n \in DOMAIN sets[i].descriptors
            /\ sets[i].descriptors[n].fields # Empty}

\* HashMap::from_iter over the sets in Vec order: the last set holding a
\* descriptor of that name with fields gives the buffer
WinningDesc(sets, n) ==
    LET i == Max({j \in DOMAIN sets :
                    /\ n \in DOMAIN sets[j].descriptors
                    /\ sets[j].descriptors[n].fields # Empty})
    IN  sets[i].descriptors[n]

\* the buffers make_buffer can return for d, one per iteration order of
\* d.fields
BufChoices(d) ==
    {Descriptor_make_buffer(d, o) : o \in Perms(DOMAIN d.fields)}

make_buffers(sets) ==
    LET names == StructNames(sets)
        all == UNION {BufChoices(WinningDesc(sets, n)) : n \in names}
    IN  {f \in [names -> all] :
            \A n \in names : f[n] \in BufChoices(WinningDesc(sets, n))}

MakeBuffers ==
    /\ bpc = "built"
    /\ buffers = None
    /\ buffers' \in make_buffers(built.sets)
    /\ UNCHANGED <<meta, added, min_offset, data, push_consts, bpc, built, wvars, xvars>>

(***************************************************************************)
(* BufStruct::write, BufStruct::map_write.                                 *)
(***************************************************************************)
ByteVals == {1, 2}

\* the payloads a caller passes, as bytes (D = u8)
Payloads == SeqsUpTo(ByteVals, MaxData)

\* what a caller's closure does with the mapped range
Callbacks == {"copy", "noop", "panic"}

\* SizeMismatch with `>` for `!=`: rejects only the payloads that are too long
SizeMismatch_OnlyLonger(bytes, field) == Len(bytes) > field.size

\* std::mem::size_of_val(data) as u64 != self.fields[field].size
SizeMismatch(bytes, field) == Len(bytes) # field.size

\* CopyFromSlice that copies to the start of the memory, not of the mapping
CopyFromSlice_FromStart(m, offset, bytes) ==
    [a \in DOMAIN m |-> IF a < Len(bytes) THEN bytes[a + 1] ELSE m[a]]

\* align.copy_from_slice(data) on a mapping that starts at offset
CopyFromSlice(m, offset, bytes) ==
    [a \in DOMAIN m |->
        IF a >= offset /\ a < offset + Len(bytes) THEN bytes[a - offset + 1] ELSE m[a]]

EnterCall(op, field, bytes, cb) ==
    /\ wpc \in {"idle", "returned"}
    /\ wcall' = [op |-> op, field |-> field, data |-> bytes, cb |-> cb]
    /\ wlog' = <<>>
    /\ mem0' = mem

\* BufStruct_write with the size check placed after the copy
BufStruct_write_CheckAfter(field, bytes) ==
    /\ EnterCall("write", field, bytes, "copy")
    /\ IF field \notin DOMAIN bs.fields
       THEN wpc' = "panicked" /\ werr' = "no_field" /\ UNCHANGED mem
       ELSE IF SizeMismatch(bytes, bs.fields[field])
       THEN /\ wpc' = "panicked"
            /\ werr' = "size_mismatch"
            /\ mem' = CopyFromSlice(mem, bs.fields[field].offset, bytes)
       ELSE wpc' = "map" /\ werr' = "none" /\ UNCHANGED mem
    /\ UNCHANGED <<bs, mapped, bvars, xvars>>

\* BufStruct::write up to its call of map_write: the index self.fields[field]
\* panics on an unknown name, then the size check
BufStruct_write(field, bytes) ==
    /\ EnterCall("write", field, bytes, "copy")
    /\ IF field \notin DOMAIN bs.fields
       THEN wpc' = "panicked" /\ werr' = "no_field"
       ELSE IF SizeMismatch(bytes, bs.fields[field])
       THEN wpc' = "panicked" /\ werr' = "size_mismatch"
       ELSE wpc' = "map" /\ werr' = "none"
    /\ UNCHANGED <<bs, mem, mapped, bvars, xvars>>

\* BufStruct::map_write called with the caller's own closure
BufStruct_map_write(field, bytes, cb) ==
    /\ EnterCall("map_write", field, bytes, cb)
    /\ IF field \notin DOMAIN bs.fields
       THEN wpc' = "panicked" /\ werr' = "no_field"
       ELSE wpc' = "map" /\ werr' = "none"
    /\ UNCHANGED <<bs, mem, mapped, bvars, xvars>>

\* map_memory(self.buf.mem, field.offset, field.size, ..).unwrap(): the
\* device maps the range or returns an error
MapMemory ==
    /\ wpc = "map"
    /\ wlog' = Append(wlog, "map_memory")
    /\ \E ok \in BOOLEAN :
          IF ok
          THEN /\ mapped' = [offset |-> bs.fields[wcall.field].offset,
                             size |-> bs.fields[wcall.field].size]
               /\ wpc' = "callback"
               /\ UNCHANGED werr
          ELSE /\ wpc' = "panicked"
               /\ werr' = "map_failed"
               /\ UNCHANGED mapped
    /\ UNCHANGED <<bs, mem, wcall, mem0, bvars, xvars>>

\* w(Align::new(ptr, align_of::<D>(), field.size)): the closure runs on the
\* mapping; a panic inside it unwinds out of map_write
RunCallback ==
    /\ wpc = "callback"
    /\ CASE wcall.cb = "copy" ->
              /\ mem' = CopyFromSlice(mem, mapped.offset, wcall.data)
              /\ wpc' = "unmap"
              /\ UNCHANGED werr
         [] wcall.cb = "noop" ->
              /\ wpc' = "unmap"
              /\ UNCHANGED <<mem, werr>>
         [] wcall.cb = "panic" ->
              /\ wpc' = "panicked"
              /\ werr' = "callback"
              /\ UNCHANGED mem
    /\ UNCHANGED <<bs, mapped, wcall, wlog, mem0, bvars, xvars>>

\* self.buf.dev.unmap_memory(self.buf.mem), then the call returns
UnmapMemory ==
    /\ wpc = "unmap"
    /\ wlog' = Append(wlog, "unmap_memory")
    /\ mapped' = None
    /\ wpc' = "returned"
    /\ UNCHANGED <<bs, mem, wcall, werr, mem0, bvars, xvars>>

(***************************************************************************)
(* Specifications.                                                         *)
(***************************************************************************)
BuilderIdle ==
    /\ meta = <<>>
    /\ added = <<>>
    /\ min_offset = 1
    /\ data = Empty
    /\ push_consts = Empty
    /\ bpc = "unused"
    /\ built = None
    /\ buffers = None

WriteIdle ==
    /\ bs = None
    /\ mem = <<>>
    /\ mapped = None
    /\ wpc = "unused"
    /\ wcall = None
    /\ werr = "none"
    /\ wlog = <<>>
    /\ mem0 = <<>>

PushIdle ==
    /\ cmd_buf = <<>>
    /\ ppc = "idle"
    /\ pcall = None

UpdateIdle ==
    /\ desc_writes = None
    /\ rebuilt = None

PipeIdle ==
    /\ pipe = None
    /\ dropping = "none"
    /\ destroyed = <<>>

SwapIdle ==
    /\ sw = None
    /\ handles = <<>>
    /\ spc = "unused"

RaceIdle ==
    /\ rpc = <<>>
    /\ rcall = <<>>
    /\ rholders = {}
    /\ rserial = TRUE
    /\ rdouble = FALSE

\* the blocks of the layout runs: up to MaxFields float members at ascending
\* declared offsets that do not overlap
DeclOffsets == (0..MaxDeclOffset) \cup {16}

DeclSizes == {1, 2, 4, 16}

MemberNames == <<"a", "b", "c", "d", "e">>

DeclBlocks ==
    {ms \in UNION {[1..k -> DeclOffsets \X DeclSizes] : k \in 1..MaxFields} :
        \A i \in DOMAIN ms :
            i > 1 => ms[i - 1][1] + ms[i - 1][2] <= ms[i][1]}

BlockType(ms) ==
    StructT([i \in DOMAIN ms |-> Member(MemberNames[i], ms[i][1], ms[i][2])])

\* one vertex stage declaring one block, as a uniform block or as a
\* push-constant block
LayoutBinaries ==
    {Binary("Vertex", <<Resource("Block", 0, 0, BlockType(ms))>>, <<>>, <<>>, <<>>) :
        ms \in DeclBlocks}
    \cup
    {Binary("Vertex", <<>>, <<>>, <<>>, <<Resource("Block", 0, 0, BlockType(ms))>>) :
        ms \in DeclBlocks}

Aligns == (1..MaxAlign) \cup {256}

\* DescPoolToken::builder(min_offset), and the binaries build_chain is given
Init ==
    /\ \/ /\ meta \in SeqsUpTo(Binaries, MaxStages)
          /\ min_offset \in BuilderAligns
       \/ /\ meta \in {<<b>> : b \in LayoutBinaries}
          /\ min_offset \in Aligns
    /\ added = <<>>
    /\ data = Empty
    /\ push_consts = Empty
    /\ bpc = "adding"
    /\ built = None
    /\ buffers = None
    /\ WriteIdle
    /\ PushIdle
    /\ UpdateIdle
    /\ RaceIdle
    /\ PipeIdle
    /\ SwapIdle

Next == Add \/ Build \/ MakeBuffers

Spec == Init /\ [][Next]_vars

\* the block the write runs reflect and allocate
WriteBlock ==
    Resource("Globals", 0, 0, StructT(<<Member("a", 0, 2), Member("b", 2, 1)>>))

WriteAligns == {1, 4}

WriteBufStructs ==
    UNION {BufChoices(Descriptor_new({"VERTEX"}, WriteBlock, a)) : a \in WriteAligns}

\* the names callers write to; "zz" is no field of the block
WriteFields == {"a", "b", "zz"}

InitWrite ==
    /\ BuilderIdle
    /\ PushIdle
    /\ UpdateIdle
    /\ RaceIdle
    /\ PipeIdle
    /\ SwapIdle
    /\ bs \in WriteBufStructs
    /\ mem = [a \in 0..(bs.size - 1) |-> 0]
    /\ mapped = None
    /\ wpc = "idle"
    /\ wcall = None
    /\ werr = "none"
    /\ wlog = <<>>
    /\ mem0 = mem

\* the closures given to map_write stay inside the mapping they receive: a
\* copying closure copies a slice of the size of the field
FitsMapping(f, d, cb) ==
    IF cb = "copy" /\ f \in DOMAIN bs.fields
    THEN Len(d) = bs.fields[f].size
    ELSE d = <<>>

NextWrite ==
    \/ \E f \in WriteFields, d \in Payloads : BufStruct_write(f, d)
    \/ \E f \in WriteFields, d \in Payloads, cb \in Callbacks :
          /\ FitsMapping(f, d, cb)
          /\ BufStruct_map_write(f, d, cb)
    \/ MapMemory
    \/ RunCallback
    \/ UnmapMemory

SpecWrite == InitWrite /\ [][NextWrite]_vars

(***************************************************************************)
(* What the builder holds, and what the binaries declared.                 *)
(***************************************************************************)
\* the binaries whose reflection reached the builder state: those add
\* returned from, and the one add panicked on
SourceBinaries ==
    Range(added) \cup (IF bpc = "panicked" /\ meta # <<>> THEN {Head(meta)} ELSE {})

\* every block with fields the program holds: descriptors of the builder
\* and of the built sets, push-constant blocks of the builder and of the
\* built map
HeldBlocks ==
    LET descs == UNION {Range(data[s]) : s \in DOMAIN data}
                 \cup (IF built = None THEN {}
                       ELSE UNION {Range(built.sets[i].descriptors) :
                                      i \in DOMAIN built.sets})
        pushes == [n \in DOMAIN push_consts |-> push_consts[n]]
        bpush == IF built = None THEN Empty ELSE built.push_consts
    IN  {[class |-> "descriptor", name |-> d.name, fields |-> d.fields] : d \in descs}
        \cup {[class |-> "push", name |-> n, fields |-> pushes[n].fields] :
                 n \in DOMAIN pushes}
        \cup {[class |-> "push", name |-> n, fields |-> bpush[n].fields] :
                 n \in DOMAIN bpush}

\* the declarations a held block can come from: a resource of that class and
\* name whose member names, indices and sizes are those of the held fields
Declarations(blk) ==
    {r \in UNION {IF blk.class = "push"
                  THEN Range(b.push_constant_buffers)
                  ELSE Range(ChainResources(b)) : b \in SourceBinaries} :
        /\ r.name = blk.name
        /\ {r.type.members[i].name : i \in DOMAIN r.type.members} = DOMAIN blk.fields
        /\ \A n \in DOMAIN blk.fields :
              /\ blk.fields[n].index + 1 \in DOMAIN r.type.members
              /\ r.type.members[blk.fields[n].index + 1].name = n
              /\ r.type.members[blk.fields[n].index + 1].size = blk.fields[n].size}

DeclaredOffset(r, f) == r.type.members[f.index + 1].offset

(***************************************************************************)
(* C1: every field of every reflected uniform or push-constant block has   *)
(* an offset that is a multiple of min_offset and is not below the offset  *)
(* the binary declares for that member.                                    *)
(***************************************************************************)
C1_OffsetAlignedAndNotBelowDeclared ==
    \A blk \in HeldBlocks :
        /\ Declarations(blk) # {}
        /\ \A r \in Declarations(blk) : \A n \in DOMAIN blk.fields :
              /\ blk.fields[n].offset % min_offset = 0
              /\ blk.fields[n].offset >= DeclaredOffset(r, blk.fields[n])

\* build returned a block holding a field whose declared offset was not a
\* multiple of min_offset and was moved up to one
C1_Witness ==
    /\ bpc = "built"
    /\ \E blk \in HeldBlocks : \E r \in Declarations(blk) : \E n \in DOMAIN blk.fields :
          /\ DeclaredOffset(r, blk.fields[n]) % min_offset # 0
          /\ blk.fields[n].offset > DeclaredOffset(r, blk.fields[n])
          /\ blk.fields[n].offset % min_offset = 0

(***************************************************************************)
(* C2: the offset of a field is the smallest multiple of min_offset that   *)
(* is at least the declared offset: it is a multiple, at least the         *)
(* declared offset and less than min_offset above it.  With min_offset 1   *)
(* it is the declared offset; with min_offset 256 the declared offsets 0   *)
(* and 16 give 0 and 256.                                                  *)
(***************************************************************************)
C2_OffsetIsLeastMultiple ==
    \A blk \in HeldBlocks : \A r \in Declarations(blk) : \A n \in DOMAIN blk.fields :
        LET d == DeclaredOffset(r, blk.fields[n])
            o == blk.fields[n].offset
        IN  /\ o % min_offset = 0
            /\ o >= d
            /\ o - d < min_offset
            /\ \A k \in d..o : k % min_offset = 0 => k = o
            /\ min_offset = 1 => o = d
            /\ (min_offset = 256 /\ d = 0) => o = 0
            /\ (min_offset = 256 /\ d = 16) => o = 256

\* the scenario block: declared offsets 0 and 16 under alignment 256
C2_Witness ==
    /\ bpc = "built"
    /\ min_offset = 256
    /\ \E blk \in HeldBlocks : \E r \in Declarations(blk) :
          \E n, m \in DOMAIN blk.fields :
              /\ DeclaredOffset(r, blk.fields[n]) = 0
              /\ blk.fields[n].offset = 0
              /\ DeclaredOffset(r, blk.fields[m]) = 16
              /\ blk.fields[m].offset = 256

DeclaredDisjoint(r) ==
    \A i, j \in DOMAIN r.type.members :
        i < j => r.type.members[i].offset + r.type.members[i].size
                    <= r.type.members[j].offset

RangesDisjoint(f, g) ==
    f.offset + f.size <= g.offset \/ g.offset + g.size <= f.offset

\* the uniform blocks of the added binaries a buffer of that name and those
\* field names can come from
BufferDeclarations(n, buf) ==
    {r \in UNION {Range(ChainResources(b)) : b \in Range(added)} :
        /\ r.name = n
        /\ {r.type.members[i].name : i \in DOMAIN r.type.members} = DOMAIN buf.fields}

(***************************************************************************)
(* C3: in every buffer made for a block whose declared members do not      *)
(* overlap, the byte ranges [offset, offset + size) of any two distinct    *)
(* fields are disjoint.                                                    *)
(***************************************************************************)
C3_FieldRangesDisjoint ==
    buffers # None =>
        \A n \in DOMAIN buffers :
            (\A r \in BufferDeclarations(n, buffers[n]) : DeclaredDisjoint(r)) =>
                \A f, g \in DOMAIN buffers[n].fields :
                    f # g => RangesDisjoint(buffers[n].fields[f], buffers[n].fields[g])

(***************************************************************************)
(* C4: the size requested for the buffer of a block is the maximum of      *)
(* offset + size over its fields, whatever the order in which from_fields  *)
(* receives the fields.                                                    *)
(***************************************************************************)
C4_BufferSizeIsMaxEnd ==
    buffers # None =>
        \A n \in DOMAIN buffers :
            buffers[n].size =
                Max({buffers[n].fields[f].offset + buffers[n].fields[f].size :
                        f \in DOMAIN buffers[n].fields})

StageFlagsOf(bin) == ShaderStageFlags_from(ShaderStage_from(bin.execution_model))

DeclaredSlots ==
    {<<r.set, r.binding>> :
        r \in UNION {Range(ChainResources(b)) : b \in Range(added)}}

SlotFlags(slot) ==
    UNION {StageFlagsOf(added[i]) :
              i \in {j \in DOMAIN added :
                        \E r \in Range(ChainResources(added[j])) :
                            <<r.set, r.binding>> = slot}}

\* the bindings the built sets hold at a slot, by set position and name
BuiltAt(slot) ==
    {<<i, n>> \in UNION {{i} \X DOMAIN built.sets[i].descriptors :
                            i \in DOMAIN built.sets} :
        /\ built.sets[i].descriptors[n].set = slot[1]
        /\ built.sets[i].descriptors[n].binding = slot[2]}

(***************************************************************************)
(* C5: after build there is exactly one binding for every (set, binding)   *)
(* an added stage declares, and its stage flags are the union of the flags *)
(* of the added stages declaring that (set, binding).                      *)
(***************************************************************************)
C5_OneBindingPerSlotWithUnionFlags ==
    bpc = "built" =>
        \A slot \in DeclaredSlots :
            /\ Cardinality(BuiltAt(slot)) = 1
            /\ \A h \in BuiltAt(slot) :
                  built.sets[h[1]].descriptors[h[2]].stage = SlotFlags(slot)

(***************************************************************************)
(* C6: in every built SetToken no two descriptors, and no two entries of   *)
(* the binding list its layout was created from, have the same binding     *)
(* index.                                                                  *)
(***************************************************************************)
C6_BindingIndicesUnique ==
    bpc = "built" =>
        \A i \in DOMAIN built.sets :
            /\ \A n, m \in DOMAIN built.sets[i].descriptors :
                  n # m => built.sets[i].descriptors[n].binding
                             # built.sets[i].descriptors[m].binding
            /\ \A j, k \in DOMAIN built.sets[i].layout.bindings :
                  j # k => built.sets[i].layout.bindings[j].binding
                             # built.sets[i].layout.bindings[k].binding

ConflictingDeclarations ==
    \E i, j \in DOMAIN added :
        /\ i # j
        /\ \E r \in Range(ChainResources(added[i])),
              q \in Range(ChainResources(added[j])) :
              /\ r.set = q.set
              /\ r.binding = q.binding
              /\ r.type.members # q.type.members

(***************************************************************************)
(* C7: when two added stages declare one (set, binding) with different     *)
(* field layouts, build does not return.                                   *)
(***************************************************************************)
C7_BuildFailsOnConflict ==
    ConflictingDeclarations => bpc # "built"

(***************************************************************************)
(* C8: a BufStruct::write to a field of the buffer panics on the size      *)
(* check exactly when the byte length of the payload differs from the      *)
(* recorded size of the field, be the payload shorter or longer.           *)
(***************************************************************************)
C8_SizeMismatchIffLengthDiffers ==
    (wcall # None /\ wcall.op = "write" /\ wcall.field \in DOMAIN bs.fields) =>
        /\ Len(wcall.data) < bs.fields[wcall.field].size => werr = "size_mismatch"
        /\ Len(wcall.data) > bs.fields[wcall.field].size => werr = "size_mismatch"
        /\ Len(wcall.data) = bs.fields[wcall.field].size => werr # "size_mismatch"

\* a write with a payload one byte short of the field was rejected
C8_Witness ==
    /\ wcall # None
    /\ wcall.op = "write"
    /\ wcall.field \in DOMAIN bs.fields
    /\ Len(wcall.data) + 1 = bs.fields[wcall.field].size
    /\ wpc = "panicked"
    /\ werr = "size_mismatch"

(***************************************************************************)
(* C9: a write rejected by the size check has made no device call, holds   *)
(* no mapping, and has left every byte of the buffer memory as it was when *)
(* the call was entered.                                                   *)
(***************************************************************************)
C9_RejectedWriteTouchesNothing ==
    werr = "size_mismatch" =>
        /\ wlog = <<>>
        /\ mapped = None
        /\ mem = mem0

\* a non-empty payload of the wrong size was rejected on a buffer earlier
\* writes had filled
C9_Witness ==
    /\ werr = "size_mismatch"
    /\ wpc = "panicked"
    /\ Len(wcall.data) > 0
    /\ \A a \in DOMAIN mem0 :
          (\E f \in DOMAIN bs.fields :
              a >= bs.fields[f].offset /\ a < bs.fields[f].offset + bs.fields[f].size)
              => mem0[a] # 0

(***************************************************************************)
(* C10: once a field write has ended, by returning or by panicking, the    *)
(* buffer memory is not mapped.                                            *)
(***************************************************************************)
C10_UnmappedAfterWriteEnds ==
    wpc \in {"returned", "panicked"} => mapped = None

\* the byte addresses of a field of the buffer
FieldRange(f) ==
    {a \in DOMAIN mem : a >= bs.fields[f].offset
                        /\ a < bs.fields[f].offset + bs.fields[f].size}

(***************************************************************************)
(* C11: a successful BufStruct::write(field, data) maps exactly the range  *)
(* [field.offset, field.offset + field.size) of the memory, once, and      *)
(* when it has returned the bytes of that range are data while every byte  *)
(* outside it is what it was when the call was entered.                    *)
(***************************************************************************)
C11_WriteChangesExactlyTheField ==
    (wpc \in {"callback", "unmap", "returned"} /\ wcall.op = "write") =>
        /\ wpc \in {"callback", "unmap"} =>
              /\ mapped = [offset |-> bs.fields[wcall.field].offset,
                           size |-> bs.fields[wcall.field].size]
              /\ wlog = <<"map_memory">>
        /\ wpc = "unmap" =>
              \A a \in DOMAIN mem \ FieldRange(wcall.field) : mem[a] = mem0[a]
        /\ wpc = "returned" =>
              /\ wlog = <<"map_memory", "unmap_memory">>
              /\ \A a \in FieldRange(wcall.field) :
                    mem[a] = wcall.data[a - bs.fields[wcall.field].offset + 1]
              /\ \A a \in DOMAIN mem \ FieldRange(wcall.field) : mem[a] = mem0[a]

\* a write of the second field has returned: bytes before it were set by an
\* earlier write and are still there
C11_Witness ==
    /\ wpc = "returned"
    /\ wcall.op = "write"
    /\ bs.fields[wcall.field].offset > 0
    /\ mem[0] # 0
    /\ \E a \in FieldRange(wcall.field) : mem[a] # mem0[a]

(***************************************************************************)
(* Two threads writing fields of one BufStruct through a shared reference: *)
(* write and map_write take &self and no lock.                             *)
(***************************************************************************)
Writers == {1, 2}

\* the other writers are outside write
OthersOutside(w) == \A o \in Writers \ {w} : rpc[o] \in {"idle", "panicked"}

\* writer w calls BufStruct::write(f, data) with data of the size of the
\* field, every byte of it w
Writer_write(w, f) ==
    /\ rpc[w] = "idle"
    /\ rpc' = [rpc EXCEPT ![w] = "map"]
    /\ rcall' = [rcall EXCEPT ![w] =
                    [field |-> f, data |-> [i \in 1..bs.fields[f].size |-> w]]]
    /\ rserial' = (rserial /\ OthersOutside(w))
    /\ UNCHANGED <<rholders, rdouble, bvars, wvars, pvars, uvars, zvars>>

\* map_memory(..).unwrap() of writer w: the device maps the range or returns
\* an error; mapping memory that is mapped already is invalid usage, which
\* the device may likewise answer either way
Writer_map_memory(w) ==
    /\ rpc[w] = "map"
    /\ rdouble' = (rdouble \/ rholders # {})
    /\ \E ok \in BOOLEAN :
          IF ok
          THEN rholders' = rholders \cup {w} /\ rpc' = [rpc EXCEPT ![w] = "copy"]
          ELSE UNCHANGED rholders /\ rpc' = [rpc EXCEPT ![w] = "panicked"]
    /\ UNCHANGED <<rcall, rserial, bvars, wvars, pvars, uvars, zvars>>

\* align.copy_from_slice(data) of writer w; when another writer has unmapped
\* the memory meanwhile the pointer dangles and the copy may or may not land
Writer_copy_from_slice(w) ==
    /\ rpc[w] = "copy"
    /\ rpc' = [rpc EXCEPT ![w] = "unmap"]
    /\ \/ mem' = CopyFromSlice(mem, bs.fields[rcall[w].field].offset, rcall[w].data)
       \/ w \notin rholders /\ UNCHANGED mem
    /\ UNCHANGED <<bs, mapped, wpc, wcall, werr, wlog, mem0>>
    /\ UNCHANGED <<rcall, rholders, rserial, rdouble, bvars, pvars, uvars, zvars>>

\* Writer_unmap_memory without the unmap_memory call
Writer_unmap_memory_Skipped(w) ==
    /\ rpc[w] = "unmap"
    /\ rpc' = [rpc EXCEPT ![w] = "idle"]
    /\ UNCHANGED <<rholders, rcall, rserial, rdouble, bvars, wvars, pvars, uvars, zvars>>

\* unmap_memory(self.buf.mem) of writer w, then write returns: the memory
\* object is unmapped, whoever mapped it
Writer_unmap_memory(w) ==
    /\ rpc[w] = "unmap"
    /\ rholders' = {}
    /\ rpc' = [rpc EXCEPT ![w] = "idle"]
    /\ UNCHANGED <<rcall, rserial, rdouble, bvars, wvars, pvars, uvars, zvars>>

InitRace ==
    /\ BuilderIdle
    /\ PushIdle
    /\ UpdateIdle
    /\ bs \in WriteBufStructs
    /\ mem = [a \in 0..(bs.size - 1) |-> 0]
    /\ mapped = None
    /\ wpc = "unused"
    /\ wcall = None
    /\ werr = "none"
    /\ wlog = <<>>
    /\ mem0 = mem
    /\ rpc = [w \in Writers |-> "idle"]
    /\ rcall = [w \in Writers |-> None]
    /\ rholders = {}
    /\ rserial = TRUE
    /\ rdouble = FALSE
    /\ PipeIdle
    /\ SwapIdle

NextRace ==
    \E w \in Writers :
        \/ \E f \in DOMAIN bs.fields : Writer_write(w, f)
        \/ Writer_map_memory(w)
        \/ Writer_copy_from_slice(w)
        \/ Writer_unmap_memory(w)

SpecRace == InitRace /\ [][NextRace]_vars

(***************************************************************************)
(* C12: a field write is map, copy, unmap in that order.  While the        *)
(* callers have serialized their writes to the buffer (no write was        *)
(* entered during another write) at most one mapping of the memory is      *)
(* active, no mapping was requested while one was active, and none is      *)
(* active while no write is in progress.  Writers that do not serialize    *)
(* reach a state where a second mapping was requested while the first was  *)
(* active: nothing in write or map_write keeps them apart.                 *)
(***************************************************************************)
C12_SerializedWritesMapOneAtATime ==
    rserial =>
        /\ Cardinality(rholders) <= 1
        /\ ~rdouble
        /\ \A w \in Writers : w \in rholders <=> rpc[w] \in {"copy", "unmap"}
        /\ (\A w \in Writers : rpc[w] \in {"idle", "panicked"}) => rholders = {}

\* two unserialized writers: the second has requested its mapping while the
\* first writer's mapping was active
C12_Witness ==
    /\ ~rserial
    /\ rdouble
    /\ \E w \in Writers : rpc[w] \in {"copy", "unmap"} /\ rpc[3 - w] \in {"copy", "panicked"}

(***************************************************************************)
(* PushConstant::write.                                                    *)
(***************************************************************************)
\* data_size != desc.size as usize
PushSizeMismatch(bytes, desc) == Len(bytes) # desc.size

\* the payloads a caller passes for a field of size n: n bytes, one byte
\* less, one byte more
PushPayloads(n) == {[i \in 1..k |-> 1] : k \in {n - 1, n, n + 1} \cap Nat}

\* the names callers write to; "zz" is a field of no block
PushFields(pc) == DOMAIN pc.fields \cup {"zz"}

\* PushConstant_write that records the command before the size check
PushConstant_write_CheckAfter(block, field, bytes) ==
    /\ bpc = "built"
    /\ ppc \in {"idle", "returned"}
    /\ Len(cmd_buf) < MaxPush
    /\ block \in DOMAIN built.push_consts
    /\ pcall' = [block |-> block, field |-> field, data |-> bytes, cmd0 |-> cmd_buf]
    /\ LET self == built.push_consts[block]
       IN IF field \notin DOMAIN self.fields
          THEN ppc' = "panicked" /\ UNCHANGED cmd_buf
          ELSE LET desc == self.fields[field]
               IN /\ cmd_buf' = Append(cmd_buf,
                                    [stage_flags |-> self.range.stage_flags,
                                     offset |-> self.range.offset + desc.offset,
                                     data |-> bytes])
                  /\ ppc' = IF PushSizeMismatch(bytes, desc)
                            THEN "panicked" ELSE "returned"
    /\ UNCHANGED <<bvars, wvars, uvars, rvars, zvars>>

\* PushConstant::write(dev, cmd_buf, layout, field, data) on the block of
\* that name: the index self.fields[field] panics on an unknown name, the
\* size check panics, otherwise cmd_push_constants records the command
PushConstant_write(block, field, bytes) ==
    /\ bpc = "built"
    /\ ppc \in {"idle", "returned"}
    /\ Len(cmd_buf) < MaxPush
    /\ block \in DOMAIN built.push_consts
    /\ pcall' = [block |-> block, field |-> field, data |-> bytes, cmd0 |-> cmd_buf]
    /\ LET self == built.push_consts[block]
       IN IF field \notin DOMAIN self.fields
          THEN ppc' = "panicked" /\ UNCHANGED cmd_buf
          ELSE LET desc == self.fields[field]
               IN IF PushSizeMismatch(bytes, desc)
                  THEN ppc' = "panicked" /\ UNCHANGED cmd_buf
                  ELSE /\ cmd_buf' = Append(cmd_buf,
                                         [stage_flags |-> self.range.stage_flags,
                                          offset |-> self.range.offset + desc.offset,
                                          data |-> bytes])
                       /\ ppc' = "returned"
    /\ UNCHANGED <<bvars, wvars, uvars, rvars, zvars>>

PushWrite ==
    /\ bpc = "built"
    /\ \E block \in DOMAIN built.push_consts :
          \E field \in PushFields(built.push_consts[block]) :
             \E bytes \in IF field \in DOMAIN built.push_consts[block].fields
                           THEN PushPayloads(built.push_consts[block].fields[field].size)
                           ELSE PushPayloads(1) :
                PushConstant_write(block, field, bytes)

NextPush == Add \/ Build \/ PushWrite

SpecPush == Init /\ [][NextPush]_vars

\* the call in progress or ended names a field of its block
PushKnownField ==
    /\ pcall # None
    /\ pcall.field \in DOMAIN built.push_consts[pcall.block].fields

(***************************************************************************)
(* C13: PushConstant::write of a field of the block fails exactly when the *)
(* byte length of data differs from the size of the field, shorter or      *)
(* longer, and a failed call has recorded no push-constant command: the    *)
(* command buffer holds what it held when the call was entered.            *)
(***************************************************************************)
C13_PushSizeGate ==
    PushKnownField =>
        LET desc == built.push_consts[pcall.block].fields[pcall.field]
        IN /\ ppc = "panicked" <=> Len(pcall.data) # desc.size
           /\ ppc = "panicked" => cmd_buf = pcall.cmd0
           /\ ppc = "returned" => Len(cmd_buf) = Len(pcall.cmd0) + 1

\* a payload one byte longer than the field was refused
C13_Witness ==
    /\ PushKnownField
    /\ ppc = "panicked"
    /\ Len(pcall.data) > built.push_consts[pcall.block].fields[pcall.field].size
    /\ cmd_buf = <<>>

\* the push-constant blocks the program holds, in the builder and in what
\* build returned
HeldPushConstants ==
    {[class |-> "push", name |-> n, fields |-> push_consts[n].fields,
      range |-> push_consts[n].range] : n \in DOMAIN push_consts}
    \cup (IF built = None THEN {}
          ELSE {[class |-> "push", name |-> n, fields |-> built.push_consts[n].fields,
                 range |-> built.push_consts[n].range] :
                   n \in DOMAIN built.push_consts})

\* the sizes the binary declares for the members of a block, added up
RECURSIVE DeclaredSizeSum(_)
DeclaredSizeSum(members) ==
    IF members = <<>> THEN 0
    ELSE Head(members).size + DeclaredSizeSum(Tail(members))

(***************************************************************************)
(* C14: every reflected push-constant block has base offset 0 and a byte   *)
(* size that is the sum of the sizes the binary declares for its members,  *)
(* whatever min_offset is; members of size 64 and 16 give 80.              *)
(***************************************************************************)
C14_PushBlockSizeIsSumOfFieldSizes ==
    \A p \in HeldPushConstants :
        /\ p.range.offset = 0
        /\ Declarations([class |-> p.class, name |-> p.name, fields |-> p.fields]) # {}
        /\ \A r \in Declarations([class |-> p.class, name |-> p.name,
                                    fields |-> p.fields]) :
              /\ p.range.size = DeclaredSizeSum(r.type.members)
              /\ {r.type.members[i].size : i \in DOMAIN r.type.members} = {64, 16}
                    => p.range.size = 80

\* the block of sizes 64 and 16 reflected under alignment 256, where the
\* second field is moved beyond the end of the block
C14_Witness ==
    /\ bpc = "built"
    /\ min_offset = 256
    /\ \E p \in HeldPushConstants :
          /\ p.range.size = 80
          /\ {p.fields[n].size : n \in DOMAIN p.fields} = {64, 16}
          /\ \E n \in DOMAIN p.fields : p.fields[n].offset >= p.range.size

\* the block of the call declares `mvp` of size 64 and then `tint` of size 16
DeclaresMvpThenTint(r) ==
    /\ Len(r.type.members) = 2
    /\ r.type.members[1].name = "mvp" /\ r.type.members[1].size = 64
    /\ r.type.members[2].name = "tint" /\ r.type.members[2].size = 16
    /\ r.type.members[2].offset = 64

(***************************************************************************)
(* C15: a PushConstant::write that returned has recorded one command       *)
(* carrying the payload at byte offset range.offset + the offset of the    *)
(* field; for a block declaring `mvp` (size 64) and then `tint` (size 16)  *)
(* a write of `tint` is recorded at byte offset 64 from range.offset.      *)
(***************************************************************************)
C15_PushAtBasePlusFieldOffset ==
    (PushKnownField /\ ppc = "returned") =>
        LET self == built.push_consts[pcall.block]
            cmd == cmd_buf[Len(cmd_buf)]
        IN  /\ cmd.data = pcall.data
            /\ cmd.offset = self.range.offset + self.fields[pcall.field].offset
            /\ \A r \in Declarations([class |-> "push", name |-> pcall.block,
                                        fields |-> self.fields]) :
                  (DeclaresMvpThenTint(r) /\ pcall.field = "tint")
                      => cmd.offset = self.range.offset + 64

\* every resource add made a binding of, in call order
AddedResources == Flatten([i \in DOMAIN added |-> ChainResources(added[i])])

Occurrences(seq, x) == Cardinality({i \in DOMAIN seq : seq[i] = x})

\* the pool-size entry of a declared resource: its kind and its count
DeclaredPoolSize(r) ==
    [ty |-> cross_to_ash(r.type).ty, descriptor_count |-> cross_to_ash(r.type).count]

DeclaredPoolSizes == [i \in DOMAIN AddedResources |-> DeclaredPoolSize(AddedResources[i])]

DeclaredSets == {AddedResources[i].set : i \in DOMAIN AddedResources}

(***************************************************************************)
(* C16: the pool build creates has one (kind, count) pool-size entry for   *)
(* each binding accumulated over all sets, no more and no fewer, and       *)
(* max_sets is the number of distinct set indices; one sampler in set 1    *)
(* and one uniform buffer in set 0 give max_sets 2, one SAMPLER entry and  *)
(* one UNIFORM_BUFFER entry.                                               *)
(***************************************************************************)
C16_PoolSizesOnePerBinding ==
    bpc = "built" =>
        LET sizes == built.pool.pool_sizes
        IN  /\ Len(sizes) = Len(AddedResources)
            /\ \A e \in Range(sizes) \cup Range(DeclaredPoolSizes) :
                  Occurrences(sizes, e) = Occurrences(DeclaredPoolSizes, e)
            /\ built.pool.max_sets = Cardinality(DeclaredSets)
            /\ ( /\ Len(AddedResources) = 2
                 /\ \E i, j \in DOMAIN AddedResources :
                       /\ AddedResources[i].type.kind = "Sampler"
                       /\ AddedResources[i].set = 1
                       /\ AddedResources[j].type.kind = "Struct"
                       /\ AddedResources[j].set = 0 )
                => /\ built.pool.max_sets = 2
                   /\ Occurrences(sizes, [ty |-> "SAMPLER", descriptor_count |-> 1]) = 1
                   /\ Occurrences(sizes, [ty |-> "UNIFORM_BUFFER", descriptor_count |-> 1]) = 1

\* one sampler in set 1 and one uniform block in set 0 were added and built
C16_Witness ==
    /\ bpc = "built"
    /\ Len(AddedResources) = 2
    /\ {AddedResources[i].set : i \in DOMAIN AddedResources} = {0, 1}
    /\ built.pool.max_sets = 2
    /\ Occurrences(built.pool.pool_sizes, [ty |-> "SAMPLER", descriptor_count |-> 1]) = 1
    /\ Occurrences(built.pool.pool_sizes,
                   [ty |-> "UNIFORM_BUFFER", descriptor_count |-> 1]) = 1

(***************************************************************************)
(* A second DescPoolBuilder given the same binaries and min_offset.        *)
(***************************************************************************)
\* builder.add over bins on a builder holding d and pc; every one of bins
\* was added without a panic before
RECURSIVE ReplayAdds(_, _, _, _)
ReplayAdds(bins, d, pc, mo) ==
    IF bins = <<>> THEN [data |-> d, push_consts |-> pc]
    ELSE LET stage == ShaderStageFlags_from(ShaderStage_from(Head(bins).execution_model))
             r1 == AddResources(d, ChainResources(Head(bins)), stage, mo)
             r2 == AddPushConsts(pc, Head(bins).push_constant_buffers, stage, mo)
         IN  ReplayAdds(Tail(bins), r1.data, r2.push_consts, mo)

\* build_chain once more on the binaries of the first run: the map of the
\* second builder has an iteration order of its own
BuildAgain ==
    /\ bpc = "built"
    /\ rebuilt = None
    /\ LET b == ReplayAdds(added, Empty, Empty, min_offset)
       IN  \E order \in Perms(DOMAIN b.data), fail \in 0..3 :
              /\ fail = 2 => DOMAIN b.data # {}
              /\ rebuilt' =
                    IF fail = 0
                    THEN [pool |-> PoolInfo(b.data, order),
                          sets |-> [i \in DOMAIN order |->
                                       MakeSetToken(b.data, order, i)],
                          push_consts |-> b.push_consts]
                    ELSE [panicked |-> TRUE]
    /\ UNCHANGED <<desc_writes, bvars, wvars, pvars, rvars, zvars>>

NextTwice == Add \/ Build \/ BuildAgain

SpecTwice == Init /\ [][NextTwice]_vars

\* the field-offset tables of a build: for each block, by set index and
\* name, the offset of each field
OffsetTables(b) ==
    {[class |-> "descriptor", set |-> d.set, name |-> d.name,
      offsets |-> [n \in DOMAIN d.fields |-> d.fields[n].offset]] :
        d \in UNION {Range(b.sets[i].descriptors) : i \in DOMAIN b.sets}}
    \cup {[class |-> "push", set |-> 0, name |-> p,
           offsets |-> [n \in DOMAIN b.push_consts[p].fields |->
                           b.push_consts[p].fields[n].offset]] :
             p \in DOMAIN b.push_consts}

(***************************************************************************)
(* C17: two builds from the same sequence of binaries and the same         *)
(* min_offset give the same pool-size vector, entry by entry in the same   *)
(* order, and the same field-offset tables.                                *)
(***************************************************************************)
C17_BuildsAreIdentical ==
    (bpc = "built" /\ rebuilt # None /\ "pool" \in DOMAIN rebuilt) =>
        /\ rebuilt.pool.pool_sizes = built.pool.pool_sizes
        /\ OffsetTables(rebuilt) = OffsetTables(built)

\* what the two builds do agree on: the entries of the pool-size vector
\* up to their order, and the field-offset tables
C17_SameEntriesAndTables ==
    (bpc = "built" /\ rebuilt # None /\ "pool" \in DOMAIN rebuilt) =>
        /\ \A e \in Range(built.pool.pool_sizes) \cup Range(rebuilt.pool.pool_sizes) :
              Occurrences(rebuilt.pool.pool_sizes, e)
                  = Occurrences(built.pool.pool_sizes, e)
        /\ rebuilt.pool.max_sets = built.pool.max_sets
        /\ OffsetTables(rebuilt) = OffsetTables(built)

\* the resources declared in set s, in the order add met them
DeclaredIn(s) == SelectSeq(AddedResources, LAMBDA r : r.set = s)

\* the set index a SetToken's name map belongs to
SetIndexOf(tok) == (CHOOSE d \in Range(tok.descriptors) : TRUE).set

(***************************************************************************)
(* C18: build returns one SetToken per distinct set index and no other;    *)
(* each has a set layout and a descriptor set of its own, the descriptor   *)
(* set is the one allocated from that layout, and layout and name map      *)
(* are both made from the bindings of one and the same set index.          *)
(***************************************************************************)
C18_OneLayoutAndSetPerSetIndex ==
    bpc = "built" =>
        /\ Len(built.sets) = Cardinality(DeclaredSets)
        /\ {SetIndexOf(built.sets[i]) : i \in DOMAIN built.sets} = DeclaredSets
        /\ \A i, j \in DOMAIN built.sets :
              i # j => /\ built.sets[i].layout.id # built.sets[j].layout.id
                       /\ built.sets[i].set.id # built.sets[j].set.id
        /\ \A i \in DOMAIN built.sets :
              LET tok == built.sets[i]
                  decl == DeclaredIn(SetIndexOf(tok))
              IN  /\ tok.set.layout = tok.layout.id
                  /\ \A d \in Range(tok.descriptors) : d.set = SetIndexOf(tok)
                  /\ DOMAIN tok.descriptors = {decl[k].name : k \in DOMAIN decl}
                  /\ Len(tok.layout.bindings) = Len(decl)
                  /\ \A k \in DOMAIN decl :
                        /\ tok.layout.bindings[k].binding = decl[k].binding
                        /\ tok.layout.bindings[k].descriptor_type
                              = cross_to_ash(decl[k].type).ty

\* two set indices were declared: two SetTokens, the second one holding the
\* bindings of another set index than the first
C18_Witness ==
    /\ bpc = "built"
    /\ Len(built.sets) = 2
    /\ SetIndexOf(built.sets[1]) # SetIndexOf(built.sets[2])
    /\ \E k \in DOMAIN built.sets[1].layout.bindings :
          built.sets[1].layout.bindings[k].descriptor_type # "UNIFORM_BUFFER"

\* the bindings of the built sets that reflect a block with fields
StructBindings ==
    {d \in UNION {Range(built.sets[i].descriptors) : i \in DOMAIN built.sets} :
        d.fields # Empty}

\* the bindings of the built sets without fields: images and samplers
PlainBindings ==
    {d \in UNION {Range(built.sets[i].descriptors) : i \in DOMAIN built.sets} :
        d.fields = Empty}

(***************************************************************************)
(* C19: the map make_buffers returns holds, under its name, a buffer made  *)
(* for every binding with fields of every set, one buffer for each such    *)
(* binding, and no buffer for a binding without fields.                    *)
(***************************************************************************)
C19_OneBufferPerStructBinding ==
    buffers # None =>
        /\ \A d \in StructBindings :
              /\ d.name \in DOMAIN buffers
              /\ buffers[d.name] \in BufChoices(d)
        /\ Cardinality(DOMAIN buffers) = Cardinality(StructBindings)
        /\ \A d \in PlainBindings : d.name \notin DOMAIN buffers

(***************************************************************************)
(* Descriptor::make_write, SetToken::make_writes and                       *)
(* DescPoolToken::update_desc_sets.                                        *)
(***************************************************************************)
\* a null pointer of a native record
Null == 0

\* Descriptor::make_write(set, info): info is the k-th entry of the slice,
\* the record points at it through the member its variant selects
Descriptor_make_write(d, set, info, k) ==
    [dst_set |-> set,
     dst_binding |-> d.binding,
     descriptor_count |-> d.count,
     descriptor_type |-> d.ty,
     p_buffer_info |-> IF info.kind = "Buf" THEN k ELSE Null,
     p_image_info |-> IF info.kind = "Img" THEN k ELSE Null,
     p_texel_buffer_view |-> IF info.kind = "Tex" THEN k ELSE Null]

\* SetToken_make_writes without the contains_key test: a name the set does
\* not know gets a record of defaults
SetToken_make_writes_NoFilter(tok, info) ==
    [k \in DOMAIN info |->
        IF info[k].name \in DOMAIN tok.descriptors
        THEN Descriptor_make_write(tok.descriptors[info[k].name], tok.set, info[k], k)
        ELSE Descriptor_make_write([binding |-> 0, count |-> 0, ty |-> "SAMPLER"],
                                   tok.set, info[k], k)]

\* SetToken::make_writes(info): filter_map over the slice in its order
SetToken_make_writes(tok, info) ==
    LET known == SelectSeq([k \in DOMAIN info |-> k],
                           LAMBDA k : info[k].name \in DOMAIN tok.descriptors)
    IN  [j \in DOMAIN known |->
            Descriptor_make_write(tok.descriptors[info[known[j]].name],
                                  tok.set, info[known[j]], known[j])]

\* the entries callers ask for: blocks by a buffer info, the image by an
\* image info, and "nope", which no set declares, by a buffer view
Requests ==
    {[name |-> "Camera", kind |-> "Buf"],
     [name |-> "Globals", kind |-> "Buf"],
     [name |-> "tex", kind |-> "Img"],
     [name |-> "nope", kind |-> "Tex"]}

\* DescPoolToken::update_desc_sets(info): the writes of every set in Vec
\* order, given to update_descriptor_sets
UpdateDescSets ==
    /\ bpc = "built"
    /\ desc_writes = None
    /\ \E info \in SeqsUpTo(Requests, MaxInfo) :
          LET per_set == [i \in DOMAIN built.sets |->
                             SetToken_make_writes(built.sets[i], info)]
          IN  desc_writes' = [info |-> info,
                              per_set |-> per_set,
                              writes |-> Flatten(per_set)]
    /\ UNCHANGED <<rebuilt, bvars, wvars, pvars, rvars, zvars>>

\* the builder runs on the catalog binaries
InitCatalog ==
    /\ Init
    /\ meta \in SeqsUpTo(Binaries, MaxStages)

NextUpdate == Add \/ Build \/ UpdateDescSets

SpecUpdate == InitCatalog /\ [][NextUpdate]_vars

\* the entries of the request that name a binding of the set
KnownRequests(tok) ==
    SelectSeq(desc_writes.info, LAMBDA e : e.name \in DOMAIN tok.descriptors)

(***************************************************************************)
(* C20: for each set, make_writes returns one record for each requested    *)
(* name that is a binding of that set, in the order of the request, each   *)
(* one targeting that set and carrying the index, kind and count of that   *)
(* binding; a name the set does not know yields no record and no error.    *)
(***************************************************************************)
C20_WritesForKnownNamesOnly ==
    desc_writes # None =>
        /\ bpc = "built"
        /\ \A i \in DOMAIN built.sets :
              LET tok == built.sets[i]
                  recs == desc_writes.per_set[i]
                  known == KnownRequests(tok)
              IN  /\ Len(recs) = Len(known)
                  /\ \A k \in DOMAIN recs :
                        /\ recs[k].dst_set = tok.set
                        /\ recs[k].dst_binding = tok.descriptors[known[k].name].binding
                        /\ recs[k].descriptor_type = tok.descriptors[known[k].name].ty
                        /\ recs[k].descriptor_count = tok.descriptors[known[k].name].count
        /\ Len(desc_writes.writes)
              = Len(Flatten([i \in DOMAIN built.sets |-> KnownRequests(built.sets[i])]))

\* a request naming "nope" and a binding of one of two sets: one record, for
\* the set that has the binding, none for the other set
C20_Witness ==
    /\ desc_writes # None
    /\ Len(built.sets) = 2
    /\ Len(desc_writes.info) = 2
    /\ \E k \in DOMAIN desc_writes.info : desc_writes.info[k].name = "nope"
    /\ Len(desc_writes.writes) = 1
    /\ \E i \in DOMAIN built.sets : desc_writes.per_set[i] = <<>>

\* add panicked on the binary at the head of meta
AddFailed == bpc = "panicked" /\ meta # <<>>

(***************************************************************************)
(* C21: when add fails on a stage, on its execution model or on the type   *)
(* of one of its resources, the builder holds what the stages added        *)
(* before it left there and nothing of the failed stage: no binding of it  *)
(* in data, no block of it in push_consts.                                 *)
(***************************************************************************)
C21_FailedAddLeavesNothing ==
    AddFailed =>
        /\ data = ReplayAdds(added, Empty, Empty, min_offset).data
        /\ push_consts = ReplayAdds(added, Empty, Empty, min_offset).push_consts

\* build panicked: every binary had been added
BuildFailed == bpc = "panicked" /\ meta = <<>>

(***************************************************************************)
(* C22: when create_descriptor_pool, a create_descriptor_set_layout or     *)
(* allocate_descriptor_sets fails, build panics and is not run again:      *)
(* from then on there is no DescPoolToken, no SetToken, no push-constant   *)
(* map and no buffer made from them, and the builder is consumed.          *)
(***************************************************************************)
C22_FailedBuildReturnsNothing ==
    BuildFailed =>
        /\ built = None
        /\ buffers = None
        /\ data = Empty
        /\ push_consts = Empty

\* build failed on a builder that held bindings of two sets and a
\* push-constant block
C22_Witness ==
    /\ BuildFailed
    /\ built = None
    /\ Cardinality(DeclaredSets) = 2
    /\ \E i \in DOMAIN added : added[i].push_constant_buffers # <<>>

\* the resources of one added binary, each with the stage flags of the binary
StageBindings(bin) ==
    [k \in DOMAIN ChainResources(bin) |->
        [res |-> ChainResources(bin)[k],
         stage |-> ShaderStageFlags_from(ShaderStage_from(bin.execution_model))]]

\* the bindings of every added binary, in call order of add
AddedBindings == Flatten([i \in DOMAIN added |-> StageBindings(added[i])])

\* those of them declared in set s
AddedBindingsIn(s) == SelectSeq(AddedBindings, LAMBDA b : b.res.set = s)

(***************************************************************************)
(* C23: after any sequence of add calls the builder has a list for each    *)
(* set index a stage declared and for no other, and the list for s is, in  *)
(* call order of add and in the order of the resources within a stage,     *)
(* the bindings with set index s of every stage: nothing was removed,      *)
(* reordered or merged, a (set, binding) declared by two stages is there   *)
(* twice.                                                                  *)
(***************************************************************************)
C23_ListsAreConcatenationInCallOrder ==
    bpc = "adding" =>
        /\ DOMAIN data = {AddedBindings[k].res.set : k \in DOMAIN AddedBindings}
        /\ \A s \in DOMAIN data :
              /\ Len(data[s]) = Len(AddedBindingsIn(s))
              /\ \A k \in DOMAIN data[s] :
                    /\ data[s][k].set = s
                    /\ data[s][k].name = AddedBindingsIn(s)[k].res.name
                    /\ data[s][k].binding = AddedBindingsIn(s)[k].res.binding
                    /\ data[s][k].stage = AddedBindingsIn(s)[k].stage
                    /\ data[s][k].ty = cross_to_ash(AddedBindingsIn(s)[k].res.type).ty

\* two stages declared the same (set, binding): the list holds both, the
\* earlier stage first
C23_Witness ==
    /\ bpc = "adding"
    /\ Len(added) = 2
    /\ \E s \in DOMAIN data : \E j, k \in DOMAIN data[s] :
          /\ j < k
          /\ data[s][j].binding = data[s][k].binding
          /\ data[s][j].stage # data[s][k].stage
          /\ data[s][j].stage
                = ShaderStageFlags_from(ShaderStage_from(added[1].execution_model))

\* the push-constant blocks of one added binary, each with the stage flags
\* of the binary
StagePushes(bin) ==
    [k \in DOMAIN bin.push_constant_buffers |->
        [res |-> bin.push_constant_buffers[k],
         stage |-> ShaderStageFlags_from(ShaderStage_from(bin.execution_model))]]

\* the push-constant blocks of every added binary, in call order of add
AddedPushes == Flatten([i \in DOMAIN added |-> StagePushes(added[i])])

\* the last declaration of a block of that name
LastPush(n) ==
    AddedPushes[Max({k \in DOMAIN AddedPushes : AddedPushes[k].res.name = n})]

(***************************************************************************)
(* C24: after any sequence of add calls the push-constant map of the       *)
(* builder has one block for each block name a stage declared and no       *)
(* other, and the block under a name is the one of the last added stage    *)
(* that declares the name: its stage flags, its size and its fields.       *)
(***************************************************************************)
C24_LastPushBlockWins ==
    bpc = "adding" =>
        /\ DOMAIN push_consts = {AddedPushes[k].res.name : k \in DOMAIN AddedPushes}
        /\ \A n \in DOMAIN push_consts :
              LET members == LastPush(n).res.type.members
              IN  /\ push_consts[n].range.stage_flags = LastPush(n).stage
                  /\ push_consts[n].range.size = DeclaredSizeSum(members)
                  /\ DOMAIN push_consts[n].fields
                        = {members[i].name : i \in DOMAIN members}
                  /\ \A i \in DOMAIN members :
                        /\ push_consts[n].fields[members[i].name].size = members[i].size
                        /\ push_consts[n].fields[members[i].name].index = i - 1

\* two stages declared a block of one name with different members: the
\* map holds the block of the second
C24_Witness ==
    /\ bpc = "adding"
    /\ Len(AddedPushes) = 2
    /\ AddedPushes[1].res.name = AddedPushes[2].res.name
    /\ AddedPushes[1].res.type # AddedPushes[2].res.type
    /\ AddedPushes[1].stage # AddedPushes[2].stage
    /\ push_consts[AddedPushes[2].res.name].range.stage_flags = AddedPushes[2].stage

(***************************************************************************)
(* Reflection of one resource of each type variant.                        *)
(***************************************************************************)
\* the variants of spirv::Type: those cross_to_ash has an arm for, and
\* "Other" for the rest
TypeKinds == SupportedKinds \cup {"Other"}

\* a type of each variant, plain or an array of two
KindTypes ==
    {[kind |-> k, array |-> a, members |-> <<>>] :
        k \in TypeKinds \ {"Struct"}, a \in {<<>>, <<2>>}}

\* one vertex stage declaring one resource: of a type of each variant, or a
\* block with one member of such a type
KindBinaries ==
    {Binary("Vertex", <<Resource("res", 0, 0, t)>>, <<>>, <<>>, <<>>) : t \in KindTypes}
    \cup
    {Binary("Vertex",
            <<Resource("res", 0, 0,
                       StructT(<<[Member("m", 0, 4) EXCEPT !.type = t]>>))>>,
            <<>>, <<>>, <<>>) : t \in KindTypes}

InitKinds ==
    /\ meta \in {<<b>> : b \in KindBinaries}
    /\ min_offset \in BuilderAligns
    /\ added = <<>>
    /\ data = Empty
    /\ push_consts = Empty
    /\ bpc = "adding"
    /\ built = None
    /\ buffers = None
    /\ WriteIdle
    /\ PushIdle
    /\ UpdateIdle
    /\ RaceIdle
    /\ PipeIdle
    /\ SwapIdle

NextKinds == Add \/ Build

SpecKinds == InitKinds /\ [][NextKinds]_vars

\* scalar, vector and matrix types (a vector or matrix is reflected as the
\* variant of its component type), struct, image and sampler types
ListedKinds == ScalarKinds \cup {"Struct", "Image", "SampledImage", "Sampler"}

\* the types of the resources of a binary and of their members
TypesOf(bin) ==
    LET rs == Range(ChainResources(bin)) \cup Range(bin.push_constant_buffers)
    IN  {r.type : r \in rs}
        \cup UNION {{r.type.members[i].type : i \in DOMAIN r.type.members} : r \in rs}

(***************************************************************************)
(* C25: a resource or field whose type is outside scalar, vector, matrix,  *)
(* struct, image and sampler is a fatal reflection failure: add returns    *)
(* only for binaries all of whose resource and member types are of those,  *)
(* and every descriptor held was made from such a type.                    *)
(***************************************************************************)
C25_UnlistedTypesFail ==
    \A i \in DOMAIN added : \A t \in TypesOf(added[i]) : t.kind \in ListedKinds

(***************************************************************************)
(* Ord for ShaderStage, PipeToken::build, and the drops of PipeToken,      *)
(* DescPoolToken and SetToken.                                             *)
(***************************************************************************)
ShaderStages == {"Vert", "Geom", "Frag"}

\* ShaderStage_cmp with the Frag arm answering Greater for Geom as well
ShaderStage_cmp_FragAboveGeom(self, other) ==
    CASE self = "Vert" -> IF other = "Vert" THEN "Equal" ELSE "Less"
      [] self = "Frag" -> (CASE other = "Vert" -> "Greater"
                             [] other = "Frag" -> "Equal"
                             [] other = "Geom" -> "Greater")
      [] self = "Geom" -> IF other = "Geom" THEN "Equal" ELSE "Greater"

\* partial_cmp, which cmp unwraps
ShaderStage_cmp(self, other) ==
    CASE self = "Vert" -> IF other = "Vert" THEN "Equal" ELSE "Less"
      [] self = "Frag" -> (CASE other = "Vert" -> "Greater"
                             [] other = "Frag" -> "Equal"
                             [] other = "Geom" -> "Less")
      [] self = "Geom" -> IF other = "Geom" THEN "Equal" ELSE "Greater"

\* sort.sort_by(|(s, _a), (os, _oa)| s.cmp(os)): a stable sort driven by the
\* comparison, here by insertion
RECURSIVE InsertSorted(_, _)
InsertSorted(x, sorted) ==
    IF sorted = <<>> THEN <<x>>
    ELSE IF ShaderStage_cmp(x, Head(sorted)) = "Less" THEN <<x>> \o sorted
    ELSE <<Head(sorted)>> \o InsertSorted(x, Tail(sorted))

RECURSIVE SortStages(_)
SortStages(seq) ==
    IF seq = <<>> THEN <<>>
    ELSE InsertSorted(seq[Len(seq)], SortStages(SubSeq(seq, 1, Len(seq) - 1)))

\* ShaderArtifact::create_info of the artifact of a stage
CreateInfo(stage) == [stage |-> ShaderStageFlags_from(stage)]

\* PipeToken::build(dev, pool, .., shaders): `order` is the iteration order
\* of the stage map; create_pipeline_layout and the pipeline creation are
\* unwrapped, a panic drops the pool build was given
PipeToken_build ==
    /\ bpc = "built"
    /\ pipe = None
    /\ dropping = "none"
    /\ \E S \in (SUBSET ShaderStages) \ {{}} : \E order \in Perms(S), ok \in BOOLEAN :
          IF ok
          THEN /\ pipe' = [order |-> order,
                           shader_info |-> [k \in DOMAIN order |->
                                               CreateInfo(SortStages(order)[k])]]
               /\ UNCHANGED dropping
          ELSE /\ dropping' = "fields"
               /\ UNCHANGED pipe
    /\ UNCHANGED <<destroyed, svars, bvars, wvars, pvars, uvars, rvars>>

\* Drop for PipeToken: drop() destroys the pipeline and its layout, then the
\* fields are dropped in declaration order, desc_pool among them
Drop_PipeToken ==
    /\ pipe # None
    /\ dropping = "none"
    /\ destroyed' = destroyed \o <<[op |-> "destroy_pipeline", id |-> 1],
                                   [op |-> "destroy_pipeline_layout", id |-> 1]>>
    /\ dropping' = "fields"
    /\ UNCHANGED <<pipe, svars, bvars, wvars, pvars, uvars, rvars>>

\* Drop for DescPoolToken: drop() destroys the pool; its fields, the Vec of
\* SetTokens among them, are dropped after drop() has returned
Drop_DescPoolToken ==
    /\ bpc = "built"
    /\ \/ dropping = "fields"
       \/ dropping = "none" /\ pipe = None
    /\ destroyed' = Append(destroyed, [op |-> "destroy_descriptor_pool", id |-> 1])
    /\ dropping' = IF built.sets = <<>> THEN "done" ELSE "sets"
    /\ UNCHANGED <<pipe, svars, bvars, wvars, pvars, uvars, rvars>>

\* the layouts destroyed so far
LayoutsDestroyed ==
    SelectSeq(destroyed, LAMBDA e : e.op = "destroy_descriptor_set_layout")

\* Drop for SetToken, of the next element of the Vec
Drop_SetToken ==
    /\ dropping = "sets"
    /\ LET i == Len(LayoutsDestroyed) + 1
       IN  /\ i \in DOMAIN built.sets
           /\ destroyed' = Append(destroyed,
                                  [op |-> "destroy_descriptor_set_layout",
                                   id |-> built.sets[i].layout.id])
           /\ dropping' = IF i = Len(built.sets) THEN "done" ELSE "sets"
    /\ UNCHANGED <<pipe, svars, bvars, wvars, pvars, uvars, rvars>>

NextPipe ==
    \/ Add
    \/ Build
    \/ PipeToken_build
    \/ Drop_PipeToken
    \/ Drop_DescPoolToken
    \/ Drop_SetToken

SpecPipe == InitCatalog /\ [][NextPipe]_vars

\* the stages of the create-infos PipeToken::build listed
ListedStages == [k \in DOMAIN pipe.shader_info |-> pipe.shader_info[k].stage]

(***************************************************************************)
(* C26: the comparison of ShaderStage is a strict total order on Vert,     *)
(* Geom, Frag: a stage equals only itself, of two different stages one is  *)
(* less and the other greater, and less is transitive.  PipeToken::build   *)
(* lists the create-infos of the stages of its map in ascending order, the *)
(* same sequence for every iteration order of the map.                     *)
(***************************************************************************)
C26_StagesTotallyOrderedAndSorted ==
    /\ \A a, b \in ShaderStages :
          /\ ShaderStage_cmp(a, b) = "Equal" <=> a = b
          /\ ShaderStage_cmp(a, b) = "Less" <=> ShaderStage_cmp(b, a) = "Greater"
          /\ a # b => ShaderStage_cmp(a, b) \in {"Less", "Greater"}
    /\ \A a, b, c \in ShaderStages :
          (ShaderStage_cmp(a, b) = "Less" /\ ShaderStage_cmp(b, c) = "Less")
              => ShaderStage_cmp(a, c) = "Less"
    /\ pipe # None =>
          /\ Len(ListedStages) = Len(pipe.order)
          /\ Range(ListedStages) = {ShaderStageFlags_from(st) : st \in Range(pipe.order)}
          /\ \A o \in Perms(Range(pipe.order)) :
                /\ [k \in DOMAIN o |-> CreateInfo(SortStages(o)[k])] = pipe.shader_info
                /\ \A k \in 1..(Len(o) - 1) :
                      ShaderStage_cmp(SortStages(o)[k], SortStages(o)[k + 1]) = "Less"

\* a map of all three stages iterated as Geom, Frag, Vert gave the
\* create-infos of Vert, Frag, Geom in that order
C26_Witness ==
    /\ pipe # None
    /\ pipe.order = <<"Geom", "Frag", "Vert">>
    /\ ListedStages = <<{"VERTEX"}, {"FRAGMENT"}, {"GEOMETRY"}>>

(***************************************************************************)
(* C27: when a DescPoolToken, or the PipeToken that owns it, is dropped,   *)
(* the set layout of every SetToken is destroyed before the descriptor     *)
(* pool is, and once the drop is over every set layout was destroyed.      *)
(***************************************************************************)
C27_LayoutsDestroyedBeforePool ==
    /\ \A i, j \in DOMAIN destroyed :
          ( /\ destroyed[i].op = "destroy_descriptor_set_layout"
            /\ destroyed[j].op = "destroy_descriptor_pool" ) => i < j
    /\ dropping = "done" => Len(LayoutsDestroyed) = Len(built.sets)

(***************************************************************************)
(* C28: for every reflected push-constant block, whatever min_offset is,   *)
(* the byte range of each field lies inside the range of the block,        *)
(* offset + size <= range.size, and every push-constant command recorded   *)
(* by PushConstant::write lies inside                                      *)
(* [range.offset, range.offset + range.size).                              *)
(***************************************************************************)
C28_PushFieldsInsideBlock ==
    /\ \A p \in HeldPushConstants : \A n \in DOMAIN p.fields :
          p.fields[n].offset + p.fields[n].size <= p.range.size
    /\ (PushKnownField /\ ppc = "returned") =>
          LET self == built.push_consts[pcall.block]
              cmd == cmd_buf[Len(cmd_buf)]
          IN  /\ cmd.offset >= self.range.offset
              /\ cmd.offset + Len(cmd.data) <= self.range.offset + self.range.size

(***************************************************************************)
(* C29: for every set build returned, the binding list its set layout was  *)
(* created from and the name map of its SetToken describe the same         *)
(* bindings: as many entries in the one as in the other, and the binding   *)
(* index, kind, count and stage flags of every layout entry are those of   *)
(* a binding of the map.                                                   *)
(***************************************************************************)
C29_LayoutAndNameMapAgree ==
    bpc = "built" =>
        \A i \in DOMAIN built.sets :
            LET tok == built.sets[i]
            IN  /\ Len(tok.layout.bindings) = Cardinality(DOMAIN tok.descriptors)
                /\ \A k \in DOMAIN tok.layout.bindings :
                      \E n \in DOMAIN tok.descriptors :
                          /\ tok.descriptors[n].binding = tok.layout.bindings[k].binding
                          /\ tok.descriptors[n].ty = tok.layout.bindings[k].descriptor_type
                          /\ tok.descriptors[n].count
                                = tok.layout.bindings[k].descriptor_count
                          /\ tok.descriptors[n].stage = tok.layout.bindings[k].stage_flags

(***************************************************************************)
(* Swapchain: SwapToken::new, recreate, clean and drop.  Every Vulkan      *)
(* handle made for the SwapToken is a key of handles; its value counts the *)
(* destroy (or free) calls the device has been given for it.  A failing    *)
(* device call is a panic (every result is unwrapped), and the unwinding   *)
(* of recreate's caller drops the SwapToken.                               *)
(***************************************************************************)
ImageCounts == 1..MaxImages

Handle(kind, id) == [kind |-> kind, id |-> id]

\* The next k handles of one kind the device hands out.
NewHandles(hs, kind, k) ==
    [i \in 1..k |-> Handle(kind, Cardinality(DOMAIN hs) + i)]

Register(hs, made) == hs @@ [h \in Range(made) |-> 0]

\* One destroy call per entry of the sequence.
DestroyEach(hs, seq) ==
    [h \in DOMAIN hs |-> hs[h] + Cardinality({i \in DOMAIN seq : seq[i] = h})]

\* The device calls of SwapchainBase::new that can fail, in call order; the
\* first three return a handle.  (A failure of query_support leaves what a
\* failure of create_swapchain leaves, a failure of find_memorytype_index
\* what a failure of allocate_memory leaves.)
BaseSteps ==
    <<"create_swapchain", "create_image", "allocate_memory",
      "bind_image_memory", "get_swapchain_images">>

BaseKinds == <<"swapchain", "image", "memory">>

\* SwapchainBase::new with n swapchain images; fail = 0, or the index of
\* the step of BaseSteps that fails.
SwapchainBase_new(hs, n, fail) ==
    LET done == IF fail = 0 THEN Len(BaseSteps) ELSE fail - 1
        made == [i \in 1..(IF done < Len(BaseKinds) THEN done ELSE Len(BaseKinds))
                    |-> Handle(BaseKinds[i], Cardinality(DOMAIN hs) + i)]
    IN  [handles |-> Register(hs, made),
         base |-> IF fail = 0
                  THEN [chain |-> made[1], depth_img |-> made[2],
                        depth_img_mem |-> made[3], imgs |-> n]
                  ELSE None]

\* SwapchainBase::make_views: one view per swapchain image, then the depth
\* view; done = the create_image_view calls that succeeded.
SwapchainBase_make_views(hs, base, done) ==
    LET views == NewHandles(hs, "image_view",
                            IF done < base.imgs THEN done ELSE base.imgs)
        hs1 == Register(hs, views)
        depth == IF done > base.imgs THEN NewHandles(hs1, "image_view", 1) ELSE <<>>
    IN  [handles |-> Register(hs1, depth), img_views |-> views, depth_view |-> depth]

\* The device calls of SwapToken::create: imgs + 1 image views, imgs
\* framebuffers, and the submission of the setup command buffer.
CreateSteps(n) == 2 * n + 2

\* SwapToken::create; fail = 0, or the index of the device call that fails.
SwapToken_create(hs, base, fail) ==
    LET n == base.imgs
        done == IF fail = 0 THEN CreateSteps(n) ELSE fail - 1
        mv == SwapchainBase_make_views(hs, base, done)
        fbs == NewHandles(mv.handles, "framebuffer",
                          IF done <= n + 1 THEN 0
                          ELSE IF done - (n + 1) < n THEN done - (n + 1) ELSE n)
    IN  [handles |-> Register(mv.handles, fbs),
         out |-> IF fail = 0
                 THEN [depth_view |-> mv.depth_view[1], img_views |-> mv.img_views,
                       framebuffers |-> fbs]
                 ELSE None]

\* SwapToken::new.
SwapToken_new(n) ==
    LET nb == SwapchainBase_new(<<>>, n, 0)
        cr == SwapToken_create(nb.handles, nb.base, 0)
    IN  [sw |-> [base |-> nb.base, depth_view |-> cr.out.depth_view,
                 img_views |-> cr.out.img_views,
                 framebuffers |-> cr.out.framebuffers],
         handles |-> cr.handles]

\* SwapchainBase::destroy: the three handle fields keep their values.
SwapchainBase_destroy(hs, base) ==
    DestroyEach(hs, <<base.chain, base.depth_img_mem, base.depth_img>>)

\* SwapToken::clean after its device_wait_idle: the two Vecs are drained,
\* depth_view and base keep the handles that were destroyed.
SwapToken_clean(s, hs) ==
    [sw |-> [s EXCEPT !.framebuffers = <<>>, !.img_views = <<>>],
     handles |-> SwapchainBase_destroy(
                     DestroyEach(hs, s.framebuffers \o <<s.depth_view>> \o s.img_views),
                     s.base)]

\* Where a call of recreate panics: nowhere, in a device_wait_idle (its own
\* or the one of clean), in SwapchainBase::new, or in create.
FailPoints(n) ==
    {[in |-> "none", step |-> 0], [in |-> "device_wait_idle", step |-> 0]}
        \cup {[in |-> "base", step |-> k] : k \in 1..Len(BaseSteps)}
        \cup {[in |-> "create", step |-> k] : k \in 1..CreateSteps(n)}

Swapchains == {h \in DOMAIN handles : h.kind = "swapchain"}

InitSwap ==
    /\ BuilderIdle
    /\ WriteIdle
    /\ PushIdle
    /\ UpdateIdle
    /\ RaceIdle
    /\ PipeIdle
    /\ \E n \in ImageCounts :
          /\ sw = SwapToken_new(n).sw
          /\ handles = SwapToken_new(n).handles
    /\ spc = "ready"

SwapToken_recreate ==
    /\ spc = "ready"
    /\ Cardinality(Swapchains) <= MaxRecreate
    /\ \E n \in ImageCounts : \E at \in FailPoints(n) :
          LET cleaned == SwapToken_clean(sw, handles)
              nb == SwapchainBase_new(cleaned.handles, n,
                                      IF at.in = "base" THEN at.step ELSE 0)
              based == [cleaned.sw EXCEPT !.base = nb.base]
              cr == SwapToken_create(nb.handles, nb.base,
                                     IF at.in = "create" THEN at.step ELSE 0)
          IN  CASE at.in = "device_wait_idle" ->
                     /\ sw' = sw
                     /\ handles' = handles
                     /\ spc' = "unwinding"
                [] at.in = "base" ->
                     /\ sw' = cleaned.sw
                     /\ handles' = nb.handles
                     /\ spc' = "unwinding"
                [] at.in = "create" ->
                     /\ sw' = based
                     /\ handles' = cr.handles
                     /\ spc' = "unwinding"
                [] at.in = "none" ->
                     /\ sw' = [based EXCEPT !.depth_view = cr.out.depth_view,
                                            !.img_views = cr.out.img_views,
                                            !.framebuffers = cr.out.framebuffers]
                     /\ handles' = cr.handles
                     /\ spc' = "ready"
    /\ UNCHANGED <<tvars, bvars, wvars, pvars, uvars, rvars>>

\* Drop for SwapToken: clean.  Its device_wait_idle may fail: a panic in a
\* drop that runs during unwinding aborts the process.
Drop_SwapToken ==
    /\ spc \in {"ready", "unwinding"}
    /\ \E idle \in BOOLEAN :
          IF idle
          THEN /\ sw' = SwapToken_clean(sw, handles).sw
               /\ handles' = SwapToken_clean(sw, handles).handles
               /\ spc' = "dropped"
          ELSE /\ UNCHANGED <<sw, handles>>
               /\ spc' = IF spc = "unwinding" THEN "aborted" ELSE "drop_panicked"
    /\ UNCHANGED <<tvars, bvars, wvars, pvars, uvars, rvars>>

NextSwap ==
    \/ SwapToken_recreate
    \/ Drop_SwapToken

SpecSwap == InitSwap /\ [][NextSwap]_vars

\* C30: over any sequence of recreate calls followed by the drop, a failed
\* recreate included, no swapchain, depth image, depth memory, image view or
\* framebuffer handle is destroyed more than once, and once the SwapToken
\* has been dropped every handle that was created has been destroyed.
C30_HandlesDestroyedExactlyOnce ==
    /\ \A h \in DOMAIN handles : handles[h] <= 1
    /\ spc = "dropped" => \A h \in DOMAIN handles : handles[h] = 1

====
